---- MODULE Spec2Model ----
(***************************************************************************)
(* Cargo compatibility tool (src/cargo_compatibility_tool.tsx): the React  *)
(* component's state, its handlers and the compatibility engine they call. *)
(*                                                                         *)
(* JavaScript values.  A string is a sequence of one-character strings, so *)
(* that toLowerCase, trim and includes are computed, not assumed.  A       *)
(* reactivity group is the string of its number ("1", "2"), so that it can *)
(* be compared with the values null, undefined and NaN.  A nullable object *)
(* is a sequence: << >> when null, <<obj>> when set.  An object with       *)
(* insertion-ordered keys (tanks) is a sequence of [key, value] entries.   *)
(***************************************************************************)
EXTENDS Integers, Sequences, FiniteSets, TLC

VARIABLES
  tankLayout,              \* useState({ width: 4, length: 8 })
  tanks,                   \* useState({}): ordered map tankId -> tank
  chemicalDatabase,        \* useState([])
  compatibilityChart,      \* useState({}): declared group -> flagged groups
  compatibleExceptions,    \* useState([])
  incompatibleExceptions,  \* useState([])
  isLoading,               \* useState(false)
  analysisResults,         \* useState(null)
  selectedTank,            \* useState(null)
  errors,                  \* useState([])
  uploadedFiles,           \* useState({...null}): the file types uploaded
  filesReady,              \* useState(false)
  loadPc,                  \* position of the pending loadDataFromFiles call
  mounted,                 \* the mount effects have run
  lastWasAnalysis,         \* history: the last handler that ran was performAnalysis
  report                   \* the report last handed to downloadReport (<< >>: none)

vars == <<tankLayout, tanks, chemicalDatabase, compatibilityChart,
          compatibleExceptions, incompatibleExceptions, isLoading,
          analysisResults, selectedTank, errors, uploadedFiles, filesReady,
          loadPc, mounted, lastWasAnalysis, report>>

tables == <<chemicalDatabase, compatibilityChart, compatibleExceptions,
            incompatibleExceptions>>

loadVars == <<isLoading, uploadedFiles, filesReady, loadPc, mounted>>

----------------------------------------------------------------------------
(* JavaScript values and string functions *)

null == "null"
undefined == "undefined"
NaN == "NaN"

Null == << >>
Some(x) == <<x>>

toLowerCaseChar(c) ==
  IF c = "A" THEN "a" ELSE IF c = "B" THEN "b" ELSE IF c = "X" THEN "x" ELSE c

toLowerCase(s) == [i \in 1..Len(s) |-> toLowerCaseChar(s[i])]

RECURSIVE trimStart(_)
trimStart(s) == IF s # << >> /\ Head(s) = " " THEN trimStart(Tail(s)) ELSE s

RECURSIVE trimEnd(_)
trimEnd(s) ==
  IF s # << >> /\ s[Len(s)] = " " THEN trimEnd(SubSeq(s, 1, Len(s) - 1)) ELSE s

trim(s) == trimEnd(trimStart(s))

includes(s, sub) ==
  \E i \in 0..(Len(s) - Len(sub)) : SubSeq(s, i + 1, i + Len(sub)) = sub

Min(S) == CHOOSE x \in S : \A y \in S : x <= y

(* Ordered maps: an object whose keys keep their insertion order *)
keySet(m) == {m[i].key : i \in 1..Len(m)}
hasKey(m, k) == \E i \in 1..Len(m) : m[i].key = k
get(m, k) == m[CHOOSE i \in 1..Len(m) : m[i].key = k].value
put(m, k, v) ==
  IF hasKey(m, k)
  THEN [i \in 1..Len(m) |-> IF m[i].key = k THEN [key |-> k, value |-> v] ELSE m[i]]
  ELSE Append(m, [key |-> k, value |-> v])

----------------------------------------------------------------------------
(* Bounds and input universes *)

InitWidth == 4
InitLength == 8
MinWidth == 2
MinLength == 4
MaxWidth == 3
MaxLength == 4

\* The cells of the grid the operator edits: row 0, columns 0..EditCols-1.
EditCols == 2
EditCells == {<<0, c>> : c \in 0..(EditCols - 1)}

Groups == {"1", "2"}

\* Chemical names of the reference data, and what the operator types.
nAB == <<"a", "b">>
nB == <<"b">>
RecordNames == {nAB, nB}
TypedNames == {<< >>, <<" ">>, nB, <<"x">>}

----------------------------------------------------------------------------
(* State after construction *)

Init ==
  /\ tankLayout = [width |-> InitWidth, length |-> InitLength]
  /\ tanks = << >>
  /\ chemicalDatabase = << >>
  /\ compatibilityChart = << >>
  /\ compatibleExceptions = << >>
  /\ incompatibleExceptions = << >>
  /\ isLoading = FALSE
  /\ analysisResults = Null
  /\ selectedTank = Null
  /\ errors = << >>
  /\ uploadedFiles = {}
  /\ filesReady = FALSE
  /\ loadPc = "idle"
  /\ mounted = FALSE
  /\ lastWasAnalysis = FALSE
  /\ report = Null

----------------------------------------------------------------------------
(* Initialize tank layout: useEffect(..., [tankLayout]) *)

tankId(row, col) == <<row, col>>

newTanks(layout) ==
  [i \in 1..(layout.length * layout.width) |->
     LET row == (i - 1) \div layout.width
         col == (i - 1) % layout.width
     IN [key |-> tankId(row, col),
         value |-> [chemical |-> << >>, group |-> null, chemicalData |-> Null,
                    position |-> [row |-> row, col |-> col]]]]

(* Chemical search and validation *)
findChemical(chemicalName) ==
  IF chemicalName = << >> \/ trim(chemicalName) = << >> THEN Null
  ELSE IF Len(chemicalDatabase) = 0 THEN Null
  ELSE LET cleaned == trim(toLowerCase(chemicalName))
           hits == {i \in 1..Len(chemicalDatabase) :
                      /\ chemicalDatabase[i].name # << >>
                      /\ \/ toLowerCase(chemicalDatabase[i].name) = cleaned
                         \/ includes(toLowerCase(chemicalDatabase[i].name), cleaned)}
       IN IF hits = {} THEN Null
          ELSE LET found == chemicalDatabase[Min(hits)]
               IN Some([name |-> found.name, group |-> found.group])

notFoundError(chemicalName) == [kind |-> "chemical_not_found", name |-> chemicalName]

\* Faulty variant: the assignment is stored although the name did not resolve.
updateTankChemical_storeUnresolved(id, chemicalName) ==
  LET chemical == findChemical(chemicalName) IN
  /\ tanks' = put(tanks, id,
                  [chemical |-> chemicalName,
                   group |-> IF chemical # Null THEN chemical[1].group ELSE null,
                   chemicalData |-> chemical,
                   position |-> IF hasKey(tanks, id)
                                THEN get(tanks, id).position
                                ELSE [row |-> id[1], col |-> id[2]]])
  /\ errors' = << >>

updateTankChemical(id, chemicalName) ==
  LET chemical == findChemical(chemicalName) IN
  IF chemicalName # << >> /\ trim(chemicalName) # << >> /\ chemical = Null
  THEN /\ errors' = <<notFoundError(chemicalName)>>
       /\ UNCHANGED tanks
  ELSE /\ tanks' = put(tanks, id,
                       [chemical |-> chemicalName,
                        group |-> IF chemical # Null THEN chemical[1].group ELSE null,
                        chemicalData |-> chemical,
                        position |-> IF hasKey(tanks, id)
                                     THEN get(tanks, id).position
                                     ELSE [row |-> id[1], col |-> id[2]]])
       /\ errors' = << >>

----------------------------------------------------------------------------
(* The compatibility engine *)

\* Faulty variant: the column bound is off by one (c <= width).
getAdjacentTanks_columnOffByOne(row, col) ==
  LET cand == [k \in 1..9 |-> <<(row - 1) + ((k - 1) \div 3), (col - 1) + ((k - 1) % 3)>>]
      inGrid(p) == /\ p[1] >= 0 /\ p[1] < tankLayout.length
                   /\ p[2] >= 0 /\ p[2] <= tankLayout.width
                   /\ ~(p[1] = row /\ p[2] = col)
  IN SelectSeq(cand, inGrid)

\* Get adjacent tanks, in the order the two loops push them.
getAdjacentTanks(row, col) ==
  LET cand == [k \in 1..9 |-> tankId((row - 1) + ((k - 1) \div 3), (col - 1) + ((k - 1) % 3))]
      inGrid(p) == /\ p[1] >= 0 /\ p[1] < tankLayout.length
                   /\ p[2] >= 0 /\ p[2] < tankLayout.width
                   /\ ~(p[1] = row /\ p[2] = col)
  IN SelectSeq(cand, inGrid)

\* Faulty variant: the entry of either direction makes the pair incompatible.
checkGroupCompatibility_eitherDirection(group1, group2) ==
  IF group1 = null \/ group2 = null THEN "compatible"
  ELSE IF \/ group1 \in DOMAIN compatibilityChart /\ group2 \in compatibilityChart[group1]
          \/ group2 \in DOMAIN compatibilityChart /\ group1 \in compatibilityChart[group2]
       THEN "incompatible"
       ELSE "compatible"

\* Check compatibility between two groups
checkGroupCompatibility(group1, group2) ==
  IF group1 = null \/ group2 = null THEN "compatible"
  ELSE IF group1 \in DOMAIN compatibilityChart /\ group2 \in compatibilityChart[group1]
       THEN "incompatible"
       ELSE "compatible"

\* parseInt of one token of an 'Incompatible Group' cell
parseInt(token) == IF token \in {"1", "2", "3"} THEN token ELSE NaN

\* the two list searches of checkExceptions
compatibleExceptionFound(chemical1, chemical2) ==
  \E i \in 1..Len(compatibleExceptions) :
    LET ex == compatibleExceptions[i] IN
    /\ ex.chemicalName # << >>
    /\ ex.compatibleChemicalName # << >>
    /\ \/ ex.chemicalName = chemical1 /\ ex.compatibleChemicalName = chemical2
       \/ ex.chemicalName = chemical2 /\ ex.compatibleChemicalName = chemical1

incompatibleExceptionFound(chemical1, group1, chemical2, group2) ==
  \E i \in 1..Len(incompatibleExceptions) :
    LET ex == incompatibleExceptions[i] IN
    /\ ex.chemicalName # << >>
    /\ ex.incompatibleGroup # << >>
    /\ ex.chemicalName = chemical1 \/ ex.chemicalName = chemical2
    /\ LET incompatibleGroups ==
             [k \in 1..Len(ex.incompatibleGroup) |-> parseInt(ex.incompatibleGroup[k])]
       IN \E k \in 1..Len(incompatibleGroups) :
            incompatibleGroups[k] = group1 \/ incompatibleGroups[k] = group2

\* Faulty variant: an incompatible exception is matched on chemical1 only.
checkExceptions_firstChemicalOnly(chemical1, group1, chemical2, group2) ==
  IF chemical1 = << >> \/ chemical2 = << >> \/ group1 = null \/ group2 = null
  THEN null
  ELSE IF compatibleExceptionFound(chemical1, chemical2) THEN "compatible_exception"
  ELSE IF incompatibleExceptionFound(chemical1, group1, chemical1, group2)
       THEN "incompatible_exception"
       ELSE null

\* Faulty variant: the incompatible exceptions are searched first.
checkExceptions_incompatibleFirst(chemical1, group1, chemical2, group2) ==
  IF chemical1 = << >> \/ chemical2 = << >> \/ group1 = null \/ group2 = null
  THEN null
  ELSE IF incompatibleExceptionFound(chemical1, group1, chemical2, group2)
       THEN "incompatible_exception"
  ELSE IF compatibleExceptionFound(chemical1, chemical2) THEN "compatible_exception"
       ELSE null

\* Faulty variant: a compatible exception is matched in its declared order only.
checkExceptions_declaredOrder(chemical1, group1, chemical2, group2) ==
  IF chemical1 = << >> \/ chemical2 = << >> \/ group1 = null \/ group2 = null
  THEN null
  ELSE IF \E i \in 1..Len(compatibleExceptions) :
            /\ compatibleExceptions[i].chemicalName = chemical1
            /\ compatibleExceptions[i].compatibleChemicalName = chemical2
       THEN "compatible_exception"
  ELSE IF incompatibleExceptionFound(chemical1, group1, chemical2, group2)
       THEN "incompatible_exception"
       ELSE null

\* Check for exceptions
checkExceptions(chemical1, group1, chemical2, group2) ==
  IF chemical1 = << >> \/ chemical2 = << >> \/ group1 = null \/ group2 = null
  THEN null
  ELSE IF compatibleExceptionFound(chemical1, chemical2) THEN "compatible_exception"
  ELSE IF incompatibleExceptionFound(chemical1, group1, chemical2, group2)
       THEN "incompatible_exception"
       ELSE null

\* Faulty variant: a whitespace-only name counts as a cargo.
isLoaded_noTrim(tank) == tank.chemical # << >>

\* tank.chemical && tank.chemical.trim() !== ''
isLoaded(tank) == tank.chemical # << >> /\ trim(tank.chemical) # << >>

\* Faulty variant: any exception replaces the base classification.
finalCompatibility_exceptionWins(baseCompatibility, exception) ==
  IF exception # null THEN exception ELSE baseCompatibility

\* the resolution of base and exception into the final classification
finalCompatibility(baseCompatibility, exception) ==
  IF exception = "compatible_exception" /\ baseCompatibility = "incompatible"
  THEN "compatible_exception"
  ELSE IF exception = "incompatible_exception" /\ baseCompatibility = "compatible"
       THEN "incompatible_exception"
       ELSE baseCompatibility

\* Faulty variant: equality with 'incompatible' instead of includes.
includesIncompatible_equality(c) == c = "incompatible"

\* finalCompatibility.includes('incompatible')
includesIncompatible(c) == c \in {"incompatible", "incompatible_exception"}

\* the entry stored under results[tankId].adjacentCompatibility[adjTankId]
relationship(tank, adjTank) ==
  LET baseCompatibility == checkGroupCompatibility(tank.group, adjTank.group)
      exception == checkExceptions(tank.chemical, tank.group, adjTank.chemical, adjTank.group)
  IN [chemical |-> adjTank.chemical,
      group |-> adjTank.group,
      compatibility |-> finalCompatibility(baseCompatibility, exception),
      baseCompatibility |-> baseCompatibility,
      exception |-> exception]

\* the adjacency map of one loaded tank, in the order its entries are set
adjacentCompatibility(tank) ==
  LET loadedAdj(a) == hasKey(tanks, a) /\ isLoaded(get(tanks, a))
      adj == SelectSeq(getAdjacentTanks(tank.position.row, tank.position.col), loadedAdj)
  IN [i \in 1..Len(adj) |-> [key |-> adj[i], value |-> relationship(tank, get(tanks, adj[i]))]]

\* the problems one tank pushes
tankProblems(id, tank) ==
  LET flagged(e) == includesIncompatible(e.value.compatibility)
      bad == SelectSeq(adjacentCompatibility(tank), flagged)
  IN [i \in 1..Len(bad) |->
        [tank1 |-> id, tank2 |-> bad[i].key,
         chemical1 |-> tank.chemical, chemical2 |-> bad[i].value.chemical,
         compatibility |-> bad[i].value.compatibility]]

RECURSIVE concat(_)
concat(ss) == IF ss = << >> THEN << >> ELSE Head(ss) \o concat(Tail(ss))

\* the results and problems one pass builds, starting from empty ones
analysisPass ==
  LET loadedEntry(e) == isLoaded(e.value)
      loaded == SelectSeq(tanks, loadedEntry)
  IN [results |->
        [i \in 1..Len(loaded) |->
           [key |-> loaded[i].key,
            value |-> [chemical |-> loaded[i].value.chemical,
                       group |-> loaded[i].value.group,
                       adjacentCompatibility |-> adjacentCompatibility(loaded[i].value)]]],
      problems |->
        concat([i \in 1..Len(loaded) |-> tankProblems(loaded[i].key, loaded[i].value)])]

\* Faulty variant: the problems are pushed onto the previous pass's list.
performAnalysis_keepsProblems ==
  [results |-> analysisPass.results,
   problems |-> (IF analysisResults = Null THEN << >> ELSE analysisResults[1].problems)
                \o analysisPass.problems]

\* Perform compatibility analysis: the object handed to setAnalysisResults
performAnalysis == analysisPass

----------------------------------------------------------------------------
(* Reference data the uploaded files can hold *)

chemicalRecord(n, g) == [name |-> n, group |-> g]
compatibleRecord(n1, n2) == [chemicalName |-> n1, compatibleChemicalName |-> n2]
incompatibleRecord(n, tokens) == [chemicalName |-> n, incompatibleGroup |-> tokens]

\* What one session's files hold: one chemical of group 2, a chart flagging
\* every pair of groups, one exception of each kind.  A load that fails
\* part-way leaves the later tables as they were (empty after construction).
Databases == {<<chemicalRecord(nB, "2")>>}
Charts == {[g \in Groups |-> Groups]}
CompatibleLists == {<<compatibleRecord(nB, nAB)>>}
IncompatibleLists == {<<incompatibleRecord(nB, <<"2">>)>>}

FileTypes == {"chemicalIndex", "compatibilityChart", "compatibleExceptions",
              "incompatibleExceptions"}

----------------------------------------------------------------------------
(* Handlers and effects *)

\* the main interface is rendered: lines 406-415 and 559
interfaceShown == mounted /\ ~isLoading /\ Len(chemicalDatabase) > 0

\* the cells renderTankGrid draws, among those the operator edits
renderedCells ==
  {id \in EditCells : id[1] < tankLayout.length /\ id[2] < tankLayout.width}

\* the mount run of useEffect(..., [tankLayout])
LayoutEffect ==
  /\ ~mounted
  /\ mounted' = TRUE
  /\ tanks' = newTanks(tankLayout)
  /\ lastWasAnalysis' = FALSE
  /\ UNCHANGED report
  /\ UNCHANGED <<tankLayout, tables, isLoading, analysisResults, selectedTank,
                 errors, uploadedFiles, filesReady, loadPc>>

\* handleFileUpload, and the effect on uploadedFiles that sets filesReady
HandleFileUpload ==
  /\ mounted /\ ~isLoading
  /\ \E fileType \in FileTypes :
       /\ uploadedFiles' = uploadedFiles \cup {fileType}
       /\ filesReady' = (uploadedFiles' = FileTypes)
  /\ lastWasAnalysis' = FALSE
  /\ UNCHANGED report
  /\ UNCHANGED <<tankLayout, tanks, tables, isLoading, analysisResults,
                 selectedTank, errors, loadPc, mounted>>

\* loadDataFromFiles up to its first await (the button is disabled otherwise)
LoadStart ==
  /\ mounted /\ filesReady /\ ~isLoading /\ loadPc = "idle"
  /\ isLoading' = TRUE
  /\ errors' = << >>
  /\ loadPc' = "chemicalIndex"
  /\ lastWasAnalysis' = FALSE
  /\ UNCHANGED report
  /\ UNCHANGED <<tankLayout, tanks, tables, analysisResults, selectedTank,
                 uploadedFiles, filesReady, mounted>>

LoadChemicalIndex ==
  /\ loadPc = "chemicalIndex"
  /\ \E db \in Databases : chemicalDatabase' = db
  /\ loadPc' = "compatibilityChart"
  /\ lastWasAnalysis' = FALSE
  /\ UNCHANGED report
  /\ UNCHANGED <<tankLayout, tanks, compatibilityChart, compatibleExceptions,
                 incompatibleExceptions, isLoading, analysisResults, selectedTank,
                 errors, uploadedFiles, filesReady, mounted>>

LoadCompatibilityChart ==
  /\ loadPc = "compatibilityChart"
  /\ \E chartMap \in Charts : compatibilityChart' = chartMap
  /\ loadPc' = "compatibleExceptions"
  /\ lastWasAnalysis' = FALSE
  /\ UNCHANGED report
  /\ UNCHANGED <<tankLayout, tanks, chemicalDatabase, compatibleExceptions,
                 incompatibleExceptions, isLoading, analysisResults, selectedTank,
                 errors, uploadedFiles, filesReady, mounted>>

LoadCompatibleExceptions ==
  /\ loadPc = "compatibleExceptions"
  /\ \E compatible \in CompatibleLists : compatibleExceptions' = compatible
  /\ loadPc' = "incompatibleExceptions"
  /\ lastWasAnalysis' = FALSE
  /\ UNCHANGED report
  /\ UNCHANGED <<tankLayout, tanks, chemicalDatabase, compatibilityChart,
                 incompatibleExceptions, isLoading, analysisResults, selectedTank,
                 errors, uploadedFiles, filesReady, mounted>>

LoadIncompatibleExceptions ==
  /\ loadPc = "incompatibleExceptions"
  /\ \E incompatible \in IncompatibleLists : incompatibleExceptions' = incompatible
  /\ isLoading' = FALSE
  /\ loadPc' = "idle"
  /\ lastWasAnalysis' = FALSE
  /\ UNCHANGED report
  /\ UNCHANGED <<tankLayout, tanks, chemicalDatabase, compatibilityChart,
                 compatibleExceptions, analysisResults, selectedTank, errors,
                 uploadedFiles, filesReady, mounted>>

\* the catch block: a file read or a workbook parse failed
LoadFail ==
  /\ loadPc # "idle"
  /\ errors' = <<[kind |-> "error_loading_data", name |-> << >>]>>
  /\ isLoading' = FALSE
  /\ loadPc' = "idle"
  /\ lastWasAnalysis' = FALSE
  /\ UNCHANGED report
  /\ UNCHANGED <<tankLayout, tanks, tables, analysisResults, selectedTank,
                 uploadedFiles, filesReady, mounted>>

\* the Beam (Width) input, and the layout effect its new tankLayout triggers
SetWidth ==
  /\ interfaceShown
  /\ \E w \in MinWidth..MaxWidth :
       /\ tankLayout' = [tankLayout EXCEPT !.width = w]
       /\ tanks' = newTanks(tankLayout')
  /\ lastWasAnalysis' = FALSE
  /\ UNCHANGED report
  /\ UNCHANGED <<tables, analysisResults, selectedTank, errors, loadVars>>

\* the Length input, and the layout effect
SetLength ==
  /\ interfaceShown
  /\ \E l \in MinLength..MaxLength :
       /\ tankLayout' = [tankLayout EXCEPT !.length = l]
       /\ tanks' = newTanks(tankLayout')
  /\ lastWasAnalysis' = FALSE
  /\ UNCHANGED report
  /\ UNCHANGED <<tables, analysisResults, selectedTank, errors, loadVars>>

\* the Clear All button: setTanks({})
ClearAll ==
  /\ interfaceShown
  /\ tanks' = << >>
  /\ lastWasAnalysis' = FALSE
  /\ UNCHANGED report
  /\ UNCHANGED <<tankLayout, tables, analysisResults, selectedTank, errors, loadVars>>

\* a click on a tank of the grid
SelectTank ==
  /\ interfaceShown
  /\ \E id \in renderedCells : selectedTank' = Some(id)
  /\ lastWasAnalysis' = FALSE
  /\ UNCHANGED report
  /\ UNCHANGED <<tankLayout, tanks, tables, analysisResults, errors, loadVars>>

\* the text shown in a tank's input: tank.chemical || ''
shownChemical(id) == IF hasKey(tanks, id) THEN get(tanks, id).chemical ELSE << >>

\* onChange of a tank's input
TypeChemical(names) ==
  /\ interfaceShown
  /\ \E id \in renderedCells : \E chemicalName \in names :
       /\ chemicalName # shownChemical(id)
       /\ updateTankChemical(id, chemicalName)
  /\ lastWasAnalysis' = FALSE
  /\ UNCHANGED report
  /\ UNCHANGED <<tankLayout, tables, analysisResults, selectedTank, loadVars>>

\* the x button of a tank
ClearTank ==
  /\ interfaceShown
  /\ \E id \in renderedCells : updateTankChemical(id, << >>)
  /\ lastWasAnalysis' = FALSE
  /\ UNCHANGED report
  /\ UNCHANGED <<tankLayout, tables, analysisResults, selectedTank, loadVars>>

\* a click on a search suggestion (searchTerm is typed and reset to '' here)
SuggestionClick ==
  /\ interfaceShown
  /\ selectedTank # Null
  /\ \E i \in 1..Len(chemicalDatabase) :
       updateTankChemical(selectedTank[1], chemicalDatabase[i].name)
  /\ lastWasAnalysis' = FALSE
  /\ UNCHANGED report
  /\ UNCHANGED <<tankLayout, tables, analysisResults, selectedTank, loadVars>>

\* the Perform Compatibility Analysis button
PerformAnalysis ==
  /\ interfaceShown
  /\ analysisResults' = Some(performAnalysis)
  /\ lastWasAnalysis' = TRUE
  /\ UNCHANGED report
  /\ UNCHANGED <<tankLayout, tanks, tables, selectedTank, errors, loadVars>>

\* generateReport: the object handed to downloadReport (the timestamp left
\* out; a tank is named by the two numbers of its id)
generateReport ==
  LET loadedEntry(e) == isLoaded(e.value)
      loaded == SelectSeq(tanks, loadedEntry)
      problems == IF analysisResults # Null THEN analysisResults[1].problems ELSE << >>
  IN [vesselConfiguration |-> tankLayout,
      cargoManifest |->
        [i \in 1..Len(loaded) |->
           [tank |-> loaded[i].key,
            chemical |-> loaded[i].value.chemical,
            group |-> IF loaded[i].value.group # null
                      THEN loaded[i].value.group ELSE "Unknown"]],
      compatibilityResults |->
        IF analysisResults # Null THEN analysisResults[1]
        ELSE [results |-> << >>, problems |-> << >>],
      summary |-> [totalTanks |-> Len(tanks),
                   loadedTanks |-> Len(loaded),
                   compatibilityIssues |-> Len(problems),
                   status |-> IF Len(problems) = 0 THEN "APPROVED" ELSE "ISSUES FOUND"]]

\* the Export Report button, rendered inside the Analysis Results panel
GenerateReport ==
  /\ mounted /\ ~isLoading /\ analysisResults # Null
  /\ report' = Some(generateReport)
  /\ lastWasAnalysis' = FALSE
  /\ UNCHANGED <<tankLayout, tanks, tables, analysisResults, selectedTank, errors,
                 loadVars>>

Next ==
  \/ LayoutEffect
  \/ HandleFileUpload
  \/ LoadStart
  \/ LoadChemicalIndex
  \/ LoadCompatibilityChart
  \/ LoadCompatibleExceptions
  \/ LoadIncompatibleExceptions
  \/ LoadFail
  \/ SetWidth
  \/ SetLength
  \/ ClearAll
  \/ SelectTank
  \/ TypeChemical(TypedNames)
  \/ ClearTank
  \/ SuggestionClick
  \/ PerformAnalysis

\* the whole session but for the report exports, which change nothing the
\* handlers read; they are taken up in SpecReport
Spec == Init /\ [][Next]_vars

----------------------------------------------------------------------------
(* The engine on arbitrary reference data: the state after the mount effect, *)
(* one completed load, the files holding any tables of the universes below,  *)
(* and a resize to MaxWidth x MinLength; then tank edits and analysis passes. *)

\* a record whose 'Group No.' cell is empty carries no group: undefined
EngineDatabases ==
  {<<chemicalRecord(nAB, g1), chemicalRecord(nB, "2")>> : g1 \in {"1", undefined}}
  \cup
  {<<chemicalRecord(nB, "2"), chemicalRecord(nAB, g1)>> : g1 \in {"1", undefined}}
EngineCharts == [Groups -> SUBSET Groups]
EngineCompatibleLists ==
  {<< >>} \cup {<<compatibleRecord(n1, n2)>> : n1 \in RecordNames, n2 \in RecordNames}
EngineIncompatibleLists ==
  {<< >>} \cup {<<incompatibleRecord(n, <<t>>)>> : n \in RecordNames, t \in Groups}
EngineTypedNames == {<< >>, nAB, nB}

InitEngine ==
  /\ tankLayout = [width |-> MaxWidth, length |-> MinLength]
  /\ tanks = newTanks(tankLayout)
  /\ chemicalDatabase \in EngineDatabases
  /\ compatibilityChart \in EngineCharts
  /\ compatibleExceptions \in EngineCompatibleLists
  /\ incompatibleExceptions \in EngineIncompatibleLists
  /\ isLoading = FALSE
  /\ analysisResults = Null
  /\ selectedTank = Null
  /\ errors = << >>
  /\ uploadedFiles = FileTypes
  /\ filesReady = TRUE
  /\ loadPc = "idle"
  /\ mounted = TRUE
  /\ lastWasAnalysis = FALSE
  /\ report = Null

NextEngine ==
  \/ TypeChemical(EngineTypedNames)
  \/ ClearTank
  \/ PerformAnalysis

SpecEngine == InitEngine /\ [][NextEngine]_vars

----------------------------------------------------------------------------
(* The grid under resizes: the state after the mount effect and one         *)
(* completed load; then resizes, tank edits and analysis passes.            *)

InitGrid ==
  /\ tankLayout = [width |-> InitWidth, length |-> InitLength]
  /\ tanks = newTanks(tankLayout)
  /\ chemicalDatabase \in Databases
  /\ compatibilityChart \in Charts
  /\ compatibleExceptions \in CompatibleLists
  /\ incompatibleExceptions \in IncompatibleLists
  /\ isLoading = FALSE
  /\ analysisResults = Null
  /\ selectedTank = Null
  /\ errors = << >>
  /\ uploadedFiles = FileTypes
  /\ filesReady = TRUE
  /\ loadPc = "idle"
  /\ mounted = TRUE
  /\ lastWasAnalysis = FALSE
  /\ report = Null

NextGrid ==
  \/ SetWidth
  \/ SetLength
  \/ TypeChemical(EngineTypedNames)
  \/ PerformAnalysis

SpecGrid == InitGrid /\ [][NextGrid]_vars

----------------------------------------------------------------------------
(* The exception lists with several records: the state after the mount      *)
(* effect, one completed load whose exception files hold up to              *)
(* MaxExceptions records each, and a resize; then edits and passes.         *)

MaxExceptions == 2

seqsUpTo(S, n) == UNION {[1..k -> S] : k \in 0..n}

ExceptionCharts == {[g \in Groups |-> {}], [g \in Groups |-> Groups]}
ExceptionCompatibleLists ==
  seqsUpTo({compatibleRecord(n1, n2) : n1 \in RecordNames, n2 \in RecordNames},
           MaxExceptions)
ExceptionIncompatibleLists ==
  seqsUpTo({incompatibleRecord(n, <<t>>) : n \in RecordNames, t \in Groups},
           MaxExceptions)

InitExceptions ==
  /\ tankLayout = [width |-> MaxWidth, length |-> MinLength]
  /\ tanks = newTanks(tankLayout)
  /\ chemicalDatabase = <<chemicalRecord(nB, "2"), chemicalRecord(nAB, "1")>>
  /\ compatibilityChart \in ExceptionCharts
  /\ compatibleExceptions \in ExceptionCompatibleLists
  /\ incompatibleExceptions \in ExceptionIncompatibleLists
  /\ isLoading = FALSE
  /\ analysisResults = Null
  /\ selectedTank = Null
  /\ errors = << >>
  /\ uploadedFiles = FileTypes
  /\ filesReady = TRUE
  /\ loadPc = "idle"
  /\ mounted = TRUE
  /\ lastWasAnalysis = FALSE
  /\ report = Null

NextExceptions ==
  \/ TypeChemical(EngineTypedNames)
  \/ PerformAnalysis

SpecExceptions == InitExceptions /\ [][NextExceptions]_vars

----------------------------------------------------------------------------
(* The compatibility chart as loadDataFromFiles builds it from the rows of  *)
(* the chart sheet.  A row is its 'REACTIVE GROUP' cell (<< >> when the     *)
(* cell is empty) and the set X of column headers whose cell is 'X'.        *)

chartRow(text, cols) == [reactiveGroup |-> text, X |-> cols]

\* row['REACTIVE GROUP'].split('.')[0]
beforeDot(text) ==
  SubSeq(text, 1, Min({i \in 1..Len(text) : text[i] = "."}) - 1)

\* parseInt of a text of at most one character
parseIntText(text) == IF Len(text) = 1 THEN parseInt(text[1]) ELSE NaN

RECURSIVE chartMapFrom(_, _)
chartMapFrom(chartRows, chartMap) ==
  IF chartRows = << >> THEN chartMap
  ELSE LET row == Head(chartRows)
           groupNum == parseIntText(beforeDot(row.reactiveGroup))
           flagged == {parseInt(key) : key \in {k \in row.X : parseInt(k) # NaN}}
       IN chartMapFrom(Tail(chartRows),
            IF row.reactiveGroup # << >> /\ includes(row.reactiveGroup, <<".">>)
            THEN [g \in (DOMAIN chartMap) \cup {groupNum} |->
                    IF g = groupNum THEN flagged ELSE chartMap[g]]
            ELSE chartMap)

\* const chartMap = {}; chartRows.forEach(...)
chartMap(chartRows) == chartMapFrom(chartRows, << >>)

MaxChartRows == 2

\* rows declaring group 1 or 2, a row declaring no number, a heading row
\* without a dot; the columns 1 and 2 and a column whose header is a word
ChartRowTexts == {<<"1", ".">>, <<"2", ".", "a">>, <<".">>, <<"a">>}
ChartColumns == Groups \cup {"n"}
ChartRows == {chartRow(text, cols) : text \in ChartRowTexts, cols \in SUBSET ChartColumns}
BuiltCharts == {chartMap(chartRows) : chartRows \in seqsUpTo(ChartRows, MaxChartRows)}

InitChart ==
  /\ tankLayout = [width |-> MaxWidth, length |-> MinLength]
  /\ tanks = newTanks(tankLayout)
  /\ chemicalDatabase \in EngineDatabases
  /\ compatibilityChart \in BuiltCharts
  /\ compatibleExceptions = << >>
  /\ incompatibleExceptions = << >>
  /\ isLoading = FALSE
  /\ analysisResults = Null
  /\ selectedTank = Null
  /\ errors = << >>
  /\ uploadedFiles = FileTypes
  /\ filesReady = TRUE
  /\ loadPc = "idle"
  /\ mounted = TRUE
  /\ lastWasAnalysis = FALSE
  /\ report = Null

NextChart ==
  \/ TypeChemical(EngineTypedNames)
  \/ PerformAnalysis

SpecChart == InitChart /\ [][NextChart]_vars

----------------------------------------------------------------------------
(* Incompatible-exception records whose 'Incompatible Group' cell holds a   *)
(* word among its comma-separated tokens: the state after the mount effect, *)
(* one completed load and a resize; then edits and passes.                  *)

GroupCells == {<<"1">>, <<"2">>, <<"x">>, <<"2", "x">>, <<"x", "1">>}
MalformedIncompatibleLists ==
  seqsUpTo({incompatibleRecord(n, cell) : n \in RecordNames, cell \in GroupCells},
           MaxExceptions)

InitMalformed ==
  /\ tankLayout = [width |-> MaxWidth, length |-> MinLength]
  /\ tanks = newTanks(tankLayout)
  /\ chemicalDatabase = <<chemicalRecord(nB, "2"), chemicalRecord(nAB, "1")>>
  /\ compatibilityChart \in ExceptionCharts
  /\ compatibleExceptions = << >>
  /\ incompatibleExceptions \in MalformedIncompatibleLists
  /\ isLoading = FALSE
  /\ analysisResults = Null
  /\ selectedTank = Null
  /\ errors = << >>
  /\ uploadedFiles = FileTypes
  /\ filesReady = TRUE
  /\ loadPc = "idle"
  /\ mounted = TRUE
  /\ lastWasAnalysis = FALSE
  /\ report = Null

NextMalformed ==
  \/ TypeChemical(EngineTypedNames)
  \/ PerformAnalysis

SpecMalformed == InitMalformed /\ [][NextMalformed]_vars

----------------------------------------------------------------------------
(* Report exports between edits: the state after the mount effect and one   *)
(* completed load; then resizes, Clear All, tank edits, analysis passes and *)
(* report exports.                                                          *)

InitReport ==
  /\ tankLayout = [width |-> InitWidth, length |-> InitLength]
  /\ tanks = newTanks(tankLayout)
  /\ chemicalDatabase \in Databases
  /\ compatibilityChart \in Charts
  /\ compatibleExceptions \in CompatibleLists
  /\ incompatibleExceptions \in IncompatibleLists
  /\ isLoading = FALSE
  /\ analysisResults = Null
  /\ selectedTank = Null
  /\ errors = << >>
  /\ uploadedFiles = FileTypes
  /\ filesReady = TRUE
  /\ loadPc = "idle"
  /\ mounted = TRUE
  /\ lastWasAnalysis = FALSE
  /\ report = Null

NextReport ==
  \/ SetWidth
  \/ ClearAll
  \/ TypeChemical(EngineTypedNames)
  \/ PerformAnalysis
  \/ GenerateReport

SpecReport == InitReport /\ [][NextReport]_vars

----------------------------------------------------------------------------
(* What a stored AnalysisResult holds *)

hasResults == analysisResults # Null
storedResults == IF hasResults THEN analysisResults[1].results ELSE << >>
storedProblems == IF hasResults THEN analysisResults[1].problems ELSE << >>

\* every recorded directional relationship: tank T, its entry, neighbour A, the relation
Relationships ==
  UNION {{[tank |-> storedResults[i].key,
           chemical |-> storedResults[i].value.chemical,
           group |-> storedResults[i].value.group,
           adj |-> storedResults[i].value.adjacentCompatibility[j].key,
           rel |-> storedResults[i].value.adjacentCompatibility[j].value] :
            j \in 1..Len(storedResults[i].value.adjacentCompatibility)} :
         i \in 1..Len(storedResults)}

Problems == {storedProblems[i] : i \in 1..Len(storedProblems)}

problemFor(t, a) == {p \in Problems : p.tank1 = t /\ p.tank2 = a}

resultGroup(t) == get(storedResults, t).group

noGroup(g) == g \in {null, undefined}

listedCompatible(c1, c2) ==
  \E i \in 1..Len(compatibleExceptions) :
    \/ /\ compatibleExceptions[i].chemicalName = c1
       /\ compatibleExceptions[i].compatibleChemicalName = c2
    \/ /\ compatibleExceptions[i].chemicalName = c2
       /\ compatibleExceptions[i].compatibleChemicalName = c1

flags(g1, g2) == g1 \in DOMAIN compatibilityChart /\ g2 \in compatibilityChart[g1]

----------------------------------------------------------------------------
(* C1. Symmetry-duplication, as claimed: whenever the Problem list holds an *)
(* entry (tank1 = A, tank2 = B) it also holds an entry (tank1 = B,          *)
(* tank2 = A) with the same final classification, for any matrix.           *)
C1_SymmetryDuplication ==
  \A p \in Problems :
    \E q \in Problems :
      q.tank1 = p.tank2 /\ q.tank2 = p.tank1 /\ q.compatibility = p.compatibility

(* C1, amended.  When the matrix flags the two tanks' groups in both        *)
(* directions or in neither, a Problem (A, B) comes with a Problem (B, A)   *)
(* of the same final classification.                                        *)
C1_SymmetryDuplicationSymmetricFlags ==
  \A p \in Problems :
    (flags(resultGroup(p.tank1), resultGroup(p.tank2))
       <=> flags(resultGroup(p.tank2), resultGroup(p.tank1)))
    => \E q \in Problems :
         q.tank1 = p.tank2 /\ q.tank2 = p.tank1 /\ q.compatibility = p.compatibility

\* a flagged pair whose groups the matrix flags in both directions, reported twice
C1_Witness ==
  \E p \in Problems :
    /\ p.compatibility = "incompatible"
    /\ flags(resultGroup(p.tank2), resultGroup(p.tank1))
    /\ \E q \in Problems : q.tank1 = p.tank2 /\ q.tank2 = p.tank1
                             /\ q.compatibility = "incompatible"

----------------------------------------------------------------------------
(* C2. findChemical resolves in two ordered steps: a record whose name      *)
(* equals the query case-insensitively is returned even when an earlier     *)
(* record merely contains the query; only when no record matches exactly is *)
(* the first record containing the query returned.  Stated of the lookup    *)
(* updateTankChemical stored with every loaded tank (tank.chemicalData).    *)
exactMatches(query) ==
  {i \in 1..Len(chemicalDatabase) :
     toLowerCase(chemicalDatabase[i].name) = trim(toLowerCase(query))}

containingMatches(query) ==
  {i \in 1..Len(chemicalDatabase) :
     includes(toLowerCase(chemicalDatabase[i].name), trim(toLowerCase(query)))}

twoStepResolution(query, found) ==
  IF exactMatches(query) # {}
  THEN found # Null /\ toLowerCase(found[1].name) = trim(toLowerCase(query))
  ELSE IF containingMatches(query) # {}
       THEN found = Some(chemicalDatabase[Min(containingMatches(query))])
       ELSE found = Null

C2_ExactMatchFirst ==
  \A i \in 1..Len(tanks) :
    isLoaded(tanks[i].value)
      => twoStepResolution(tanks[i].value.chemical, tanks[i].value.chemicalData)

----------------------------------------------------------------------------
(* C3. A loaded tank whose group is null or unresolved (its record carries  *)
(* no group value) has, in every relationship it takes part in, from either *)
(* endpoint, base = compatible, exception = none, final = compatible, and   *)
(* no Problem names it.                                                     *)
C3_NoGroupAlwaysCompatible ==
  /\ \A r \in Relationships :
       (noGroup(r.group) \/ noGroup(r.rel.group))
         => /\ r.rel.baseCompatibility = "compatible"
            /\ r.rel.exception = null
            /\ r.rel.compatibility = "compatible"
  /\ \A p \in Problems :
       ~noGroup(resultGroup(p.tank1)) /\ ~noGroup(resultGroup(p.tank2))

----------------------------------------------------------------------------
(* C4. Override priority: for non-empty names and non-null groups, a pair   *)
(* the compatible-exception list contains in either order is classified     *)
(* compatible_exception by checkExceptions, also when an incompatible       *)
(* exception matches it; its final classification is never                  *)
(* incompatible_exception.                                                  *)
nonNullGroups == Groups \cup {undefined}

incompatibleMatches(c1, g1, c2, g2) ==
  \E i \in 1..Len(incompatibleExceptions) :
    /\ incompatibleExceptions[i].chemicalName \in {c1, c2}
    /\ \E k \in 1..Len(incompatibleExceptions[i].incompatibleGroup) :
         incompatibleExceptions[i].incompatibleGroup[k] \in {g1, g2}

C4_OverridePriority ==
  /\ \A c1 \in RecordNames, c2 \in RecordNames :
       \A g1 \in nonNullGroups, g2 \in nonNullGroups :
         listedCompatible(c1, c2)
           => checkExceptions(c1, g1, c2, g2) = "compatible_exception"
  /\ \A r \in Relationships :
       (listedCompatible(r.chemical, r.rel.chemical)
          /\ r.group # null /\ r.rel.group # null)
         => /\ r.rel.exception = "compatible_exception"
            /\ r.rel.compatibility # "incompatible_exception"

\* a recorded pair that both lists match, the compatible record being the
\* last of its list and an incompatible record for the pair the first of its own
C4_Witness ==
  \E r \in Relationships :
    /\ Len(compatibleExceptions) >= 2 /\ Len(incompatibleExceptions) >= 2
    /\ ~listedCompatible(compatibleExceptions[1].chemicalName,
                         compatibleExceptions[1].compatibleChemicalName)
         \/ {compatibleExceptions[1].chemicalName,
             compatibleExceptions[1].compatibleChemicalName}
              # {r.chemical, r.rel.chemical}
    /\ listedCompatible(r.chemical, r.rel.chemical)
    /\ incompatibleExceptions[1].chemicalName \in {r.chemical, r.rel.chemical}
    /\ incompatibleMatches(r.chemical, r.group, r.rel.chemical, r.rel.group)
    /\ r.rel.exception = "compatible_exception"

----------------------------------------------------------------------------
(* C5. The final classification is a function of (base, exception) only:    *)
(* (incompatible, compatible_exception) -> compatible_exception;            *)
(* (compatible, incompatible_exception) -> incompatible_exception; every    *)
(* other combination -> base, so an exception agreeing with the base is a   *)
(* no-op.                                                                   *)
C5_FinalTable ==
  \A r \in Relationships :
    /\ r.rel.baseCompatibility \in {"compatible", "incompatible"}
    /\ r.rel.exception \in {null, "compatible_exception", "incompatible_exception"}
    /\ r.rel.compatibility =
         CASE r.rel.baseCompatibility = "incompatible"
                /\ r.rel.exception = "compatible_exception" -> "compatible_exception"
           [] r.rel.baseCompatibility = "compatible"
                /\ r.rel.exception = "incompatible_exception" -> "incompatible_exception"
           [] OTHER -> r.rel.baseCompatibility

\* an exception agreeing with the base, and one overriding it, are recorded
C5_Witness ==
  /\ \E r \in Relationships : r.rel.baseCompatibility = "compatible"
                              /\ r.rel.exception = "compatible_exception"
                              /\ r.rel.compatibility = "compatible"
  /\ \E r \in Relationships : r.rel.baseCompatibility = "incompatible"
                              /\ r.rel.exception = "compatible_exception"

----------------------------------------------------------------------------
(* C6. getAdjacentTanks(row, col) returns exactly the positions (r, c) with *)
(* |r-row| <= 1, |c-col| <= 1, (r, c) # (row, col), inside the grid, each   *)
(* once; a corner cell has exactly 3 neighbours, an interior cell exactly   *)
(* 8, and adjacency is symmetric.                                           *)
layoutCells ==
  {<<r, c>> : r \in 0..(tankLayout.length - 1), c \in 0..(tankLayout.width - 1)}

abs(x) == IF x < 0 THEN 0 - x ELSE x

mooreNeighbourhood(row, col) ==
  {p \in layoutCells :
     abs(p[1] - row) <= 1 /\ abs(p[2] - col) <= 1 /\ p # <<row, col>>}

adjacentSet(p) ==
  {getAdjacentTanks(p[1], p[2])[i] : i \in 1..Len(getAdjacentTanks(p[1], p[2]))}

isCorner(p) == /\ p[1] \in {0, tankLayout.length - 1}
               /\ p[2] \in {0, tankLayout.width - 1}

isInterior(p) == /\ 0 < p[1] /\ p[1] < tankLayout.length - 1
                 /\ 0 < p[2] /\ p[2] < tankLayout.width - 1

C6_MooreNeighbourhood ==
  \A p \in layoutCells :
    /\ adjacentSet(p) = mooreNeighbourhood(p[1], p[2])
    /\ Len(getAdjacentTanks(p[1], p[2])) = Cardinality(adjacentSet(p))
    /\ (isCorner(p) /\ tankLayout.length >= 2 /\ tankLayout.width >= 2)
         => Len(getAdjacentTanks(p[1], p[2])) = 3
    /\ isInterior(p) => Len(getAdjacentTanks(p[1], p[2])) = 8
    /\ \A q \in adjacentSet(p) : p \in adjacentSet(q)

\* a pass has scanned the neighbours of a loaded tank on a resized grid that
\* has corner and interior cells
C6_Witness ==
  /\ tankLayout.width = MaxWidth /\ tankLayout.length = MinLength
  /\ \E p \in layoutCells : isInterior(p)
  /\ \E r \in Relationships : r.adj \in adjacentSet(r.tank)

----------------------------------------------------------------------------
(* C7. When updateTankChemical is called with a non-blank name findChemical *)
(* does not resolve, the tanks map is left unchanged, an error echoing the  *)
(* attempted name is set and analysisResults is not touched; a successful   *)
(* assignment clears the error list.                                        *)
unresolved(chemicalName) ==
  chemicalName # << >> /\ trim(chemicalName) # << >> /\ findChemical(chemicalName) = Null

\* a step of the component that is the call updateTankChemical(id, chemicalName)
updateCall(id, chemicalName) ==
  /\ interfaceShown
  /\ UNCHANGED <<tankLayout, tables, analysisResults, selectedTank, loadVars>>
  /\ lastWasAnalysis' = FALSE
  /\ UNCHANGED report
  /\ updateTankChemical(id, chemicalName)

C7_RejectedAssignment ==
  [][/\ \A id \in EditCells : \A chemicalName \in TypedNames :
          /\ (unresolved(chemicalName) /\ updateCall(id, chemicalName))
               => /\ tanks' = tanks
                  /\ errors' = <<notFoundError(chemicalName)>>
                  /\ analysisResults' = analysisResults
          /\ (errors' # << >> /\ ~unresolved(chemicalName))
               => ~updateCall(id, chemicalName)
     /\ \A chemicalName \in TypedNames :
          (errors' = <<notFoundError(chemicalName)>> /\ errors' # errors)
            => /\ unresolved(chemicalName)
               /\ tanks' = tanks
               /\ analysisResults' = analysisResults]_vars

\* a rejected name is echoed while a loaded tank and a stored result are kept
C7_Witness ==
  /\ errors = <<notFoundError(<<"x">>)>>
  /\ \E i \in 1..Len(tanks) : isLoaded(tanks[i].value)
  /\ hasResults

----------------------------------------------------------------------------
(* C8. TankGrid totality: once the initial layout effect has run, the tanks *)
(* map has exactly one entry for every position of the current layout and   *)
(* none for a position outside it, whatever resizes, edits, Clear All and   *)
(* analysis passes happened.                                                *)
C8_TankGridTotality ==
  mounted => /\ keySet(tanks) = layoutCells
             /\ Len(tanks) = Cardinality(layoutCells)

----------------------------------------------------------------------------
(* C9. A pass changes nothing but analysisResults, and running it again on  *)
(* the unchanged tanks, layout and tables stores an identical result (same  *)
(* adjacency maps, same Problem list in the same order).                    *)
C9_IdempotentPurePass ==
  [][/\ analysisResults' # analysisResults => UNCHANGED <<tanks, tankLayout, tables>>
     /\ (lastWasAnalysis /\ lastWasAnalysis')
          => UNCHANGED <<analysisResults, tanks, tankLayout, tables>>]_vars

\* a stored result with problems, which a second pass would have to reproduce
C9_Witness ==
  /\ lastWasAnalysis
  /\ Len(storedResults) >= 2
  /\ Len(storedProblems) >= 2

----------------------------------------------------------------------------
(* C10. For two adjacent loaded tanks with non-null groups whose chemical   *)
(* names form a pair of the compatible-exception list (in either order),    *)
(* neither directional relationship is a Problem, and each direction whose  *)
(* base is incompatible is classified compatible_exception; with the matrix *)
(* flagging both directions and only those two tanks loaded, the Problem    *)
(* list is empty.                                                           *)
C10_CompatibleOverrideSuppresses ==
  /\ \A r \in Relationships :
       (r.group # null /\ r.rel.group # null
          /\ listedCompatible(r.chemical, r.rel.chemical))
         => /\ ~includesIncompatible(r.rel.compatibility)
            /\ problemFor(r.tank, r.adj) = {}
            /\ r.rel.baseCompatibility = "incompatible"
                 => r.rel.compatibility = "compatible_exception"
  /\ (/\ Len(storedResults) = 2
      /\ \A r \in Relationships :
           /\ listedCompatible(r.chemical, r.rel.chemical)
           /\ flags(r.group, r.rel.group))
       => storedProblems = << >>

\* two tanks, flagged in both directions, listed in the other order than stored
C10_Witness ==
  /\ Len(storedResults) = 2
  /\ Cardinality(Relationships) = 2
  /\ \A r \in Relationships :
       /\ flags(r.group, r.rel.group)
       /\ r.rel.compatibility = "compatible_exception"
  /\ \E r \in Relationships :
       \E i \in 1..Len(compatibleExceptions) :
         /\ compatibleExceptions[i].chemicalName = r.rel.chemical
         /\ compatibleExceptions[i].compatibleChemicalName = r.chemical
         /\ r.chemical # r.rel.chemical
  /\ storedProblems = << >>

----------------------------------------------------------------------------
(* C11. Problem-list exactness: right after a pass, the Problem list holds  *)
(* one entry (T, A, T.chemical, A.chemical, final) for exactly the ordered  *)
(* pairs (T, A) of loaded adjacent tanks whose recorded final               *)
(* classification is incompatible or incompatible_exception, with the final *)
(* of T's adjacency map; a relationship classified compatible or            *)
(* compatible_exception yields no Problem.  With two groups flagged in both *)
(* directions, no override and only two adjacent tanks loaded, the list has *)
(* exactly 2 entries, both incompatible.                                    *)
loadedTank(id) == hasKey(tanks, id) /\ isLoaded(get(tanks, id))

loadedAdjacentPairs ==
  {<<t, a>> \in layoutCells \X layoutCells :
     loadedTank(t) /\ loadedTank(a) /\ a \in mooreNeighbourhood(t[1], t[2])}

problemCount(t, a) ==
  Cardinality({i \in 1..Len(storedProblems) :
                 storedProblems[i].tank1 = t /\ storedProblems[i].tank2 = a})

C11_ProblemListExactness ==
  lastWasAnalysis =>
    /\ {<<r.tank, r.adj>> : r \in Relationships} = loadedAdjacentPairs
    /\ \A r \in Relationships :
         IF r.rel.compatibility \in {"incompatible", "incompatible_exception"}
         THEN /\ problemCount(r.tank, r.adj) = 1
              /\ problemFor(r.tank, r.adj) =
                   {[tank1 |-> r.tank, tank2 |-> r.adj,
                     chemical1 |-> get(tanks, r.tank).chemical,
                     chemical2 |-> get(tanks, r.adj).chemical,
                     compatibility |-> r.rel.compatibility]}
         ELSE /\ r.rel.compatibility \in {"compatible", "compatible_exception"}
              /\ problemCount(r.tank, r.adj) = 0
    /\ \A p \in Problems : \E r \in Relationships : r.tank = p.tank1 /\ r.adj = p.tank2
    /\ (/\ Cardinality(loadedAdjacentPairs) = 2
        /\ Len(storedResults) = 2
        /\ \A r \in Relationships : flags(r.group, r.rel.group) /\ r.rel.exception = null)
         => /\ Len(storedProblems) = 2
            /\ \A p \in Problems : p.compatibility = "incompatible"

\* the scenario: two adjacent tanks of different groups flagged in both
\* directions, no override, and the pass has just run
C11_Witness ==
  /\ lastWasAnalysis
  /\ Cardinality(loadedAdjacentPairs) = 2
  /\ Len(storedResults) = 2
  /\ \A r \in Relationships :
       r.group # r.rel.group /\ flags(r.group, r.rel.group) /\ r.rel.exception = null
  /\ Len(storedProblems) = 2

----------------------------------------------------------------------------
(* C12. Directional matrix lookup: checkGroupCompatibility(g1, g2) returns  *)
(* incompatible iff both groups are non-null and the chart, as built from   *)
(* the rows' declared group and flagged columns, holds the entry (g1, g2);  *)
(* the entry (g2, g1) is never consulted.  When the chart flags (g1, g2)    *)
(* but not (g2, g1), the relationship evaluated from the g1 tank has base   *)
(* incompatible and the same adjacency evaluated from the g2 tank has base  *)
(* compatible.                                                              *)
lookupGroups == Groups \cup {null, undefined}

\* the rows of a sheet that declare group g, and the entry (g1, g2) as the
\* sheet gives it: the last row declaring g1 marks column g2
declaringRows(chartRows, g) ==
  {i \in 1..Len(chartRows) :
     /\ includes(chartRows[i].reactiveGroup, <<".">>)
     /\ beforeDot(chartRows[i].reactiveGroup) = <<g>>}

sheetFlags(chartRows, g1, g2) ==
  /\ declaringRows(chartRows, g1) # {}
  /\ g2 \in chartRows[CHOOSE i \in declaringRows(chartRows, g1) :
                        \A j \in declaringRows(chartRows, g1) : j <= i].X

reverse(r) == {q \in Relationships : q.tank = r.adj /\ q.adj = r.tank}

\* the built chart holds (g1, g2) iff the sheet gives it: no back-fill of (g2, g1)
chartMapHoldsSheetEntries ==
  \A chartRows \in seqsUpTo(ChartRows, MaxChartRows) :
    \A g1 \in Groups, g2 \in Groups :
      (g1 \in DOMAIN chartMap(chartRows) /\ g2 \in chartMap(chartRows)[g1])
        <=> sheetFlags(chartRows, g1, g2)

C12_DirectionalLookup ==
  /\ chartMapHoldsSheetEntries
  /\ \A g1 \in lookupGroups, g2 \in lookupGroups :
       checkGroupCompatibility(g1, g2) = "incompatible"
         <=> (g1 # null /\ g2 # null /\ flags(g1, g2))
  /\ \A r \in Relationships :
       /\ r.rel.baseCompatibility = "incompatible" <=> flags(r.group, r.rel.group)
       /\ (lastWasAnalysis /\ flags(r.group, r.rel.group) /\ ~flags(r.rel.group, r.group))
            => /\ reverse(r) # {}
               /\ \A q \in reverse(r) : q.rel.baseCompatibility = "compatible"

\* a chart flagging (g1, g2) only, and a pass that recorded the adjacency of
\* two tanks of those groups from both ends
C12_Witness ==
  /\ lastWasAnalysis
  /\ \E r \in Relationships :
       /\ flags(r.group, r.rel.group) /\ ~flags(r.rel.group, r.group)
       /\ r.rel.baseCompatibility = "incompatible"
       /\ \E q \in reverse(r) : q.rel.baseCompatibility = "compatible"

----------------------------------------------------------------------------
(* C13. Load-before-analyze ordering: performAnalysis is only invoked in    *)
(* states where no load is in progress and a load has populated all four    *)
(* tables (chemical index, matrix, compatible exceptions, incompatible      *)
(* exceptions); in particular not after a load that failed part-way and     *)
(* left the matrix or an exception list unpopulated.                        *)
loadInProgress == isLoading \/ loadPc # "idle"

allTablesPopulated ==
  /\ chemicalDatabase # << >>
  /\ compatibilityChart # << >>
  /\ compatibleExceptions # << >>
  /\ incompatibleExceptions # << >>

\* a step of the component that is a call of performAnalysis
analysisCall ==
  /\ interfaceShown
  /\ lastWasAnalysis'
  /\ UNCHANGED report
  /\ analysisResults' = Some(performAnalysis)
  /\ UNCHANGED <<tankLayout, tanks, tables, selectedTank, errors, loadVars>>

C13_LoadBeforeAnalyze ==
  [][analysisCall => (~loadInProgress /\ allTablesPopulated)]_vars

----------------------------------------------------------------------------
(* C14. Malformed incompatible-override records are skipped, not fatal: a   *)
(* record whose group-set data contains a non-numeric token never matches   *)
(* any pair, checkExceptions always returns a classification, and the       *)
(* well-formed records after it are still evaluated and can yield           *)
(* incompatible_exception.                                                  *)
numericToken(token) == token \in {"0", "1", "2", "3", "4", "5", "6", "7", "8", "9"}

malformed(ex) ==
  \E k \in 1..Len(ex.incompatibleGroup) : ~numericToken(ex.incompatibleGroup[k])

\* the well-formed records of the list that match the pair
wellFormedMatches(c1, g1, c2, g2) ==
  {i \in 1..Len(incompatibleExceptions) :
     /\ ~malformed(incompatibleExceptions[i])
     /\ incompatibleExceptions[i].chemicalName \in {c1, c2}
     /\ \E k \in 1..Len(incompatibleExceptions[i].incompatibleGroup) :
          incompatibleExceptions[i].incompatibleGroup[k] \in {g1, g2}}

C14_MalformedRecordsSkipped ==
  \A r \in Relationships :
    /\ r.rel.exception \in {null, "compatible_exception", "incompatible_exception"}
    /\ r.rel.exception = "incompatible_exception"
         <=> wellFormedMatches(r.chemical, r.group, r.rel.chemical, r.rel.group) # {}

\* the part that holds: a record all of whose tokens are words matches nothing
\* and a well-formed record after a malformed one is still evaluated
C14_AllWordsRecordsSkipped ==
  \A r \in Relationships :
    /\ wellFormedMatches(r.chemical, r.group, r.rel.chemical, r.rel.group) # {}
         => r.rel.exception = "incompatible_exception"
    /\ (\A i \in 1..Len(incompatibleExceptions) :
          incompatibleExceptions[i].chemicalName \in {r.chemical, r.rel.chemical}
            => \A k \in 1..Len(incompatibleExceptions[i].incompatibleGroup) :
                 ~numericToken(incompatibleExceptions[i].incompatibleGroup[k]))
         => r.rel.exception = null

----------------------------------------------------------------------------
(* C15. Unloaded tanks are inert: in every reachable state a tank whose     *)
(* chemical is empty or whitespace-only has group = null; right after a     *)
(* pass such a tank has no entry in results, is a key of no adjacency map   *)
(* and is named by no Problem, and every loaded tank has an entry in        *)
(* results.                                                                 *)
blankName(chemicalName) ==
  \A k \in 1..Len(chemicalName) : chemicalName[k] = " "

unloadedTanks == {tanks[i].key : i \in {j \in 1..Len(tanks) : blankName(tanks[j].value.chemical)}}
loadedTanks == keySet(tanks) \ unloadedTanks

C15_UnloadedTanksInert ==
  /\ \A i \in 1..Len(tanks) :
       blankName(tanks[i].value.chemical) => tanks[i].value.group = null
  /\ lastWasAnalysis =>
       /\ \A t \in unloadedTanks :
            /\ ~hasKey(storedResults, t)
            /\ \A r \in Relationships : r.adj # t
            /\ \A p \in Problems : p.tank1 # t /\ p.tank2 # t
       /\ \A t \in loadedTanks : hasKey(storedResults, t)

\* a pass has just run on a grid holding a tank assigned a whitespace-only
\* name and a loaded tank
C15_Witness ==
  /\ lastWasAnalysis
  /\ \E i \in 1..Len(tanks) : tanks[i].value.chemical = <<" ">>
  /\ Cardinality(loadedTanks) >= 1
  /\ storedResults # << >>

----------------------------------------------------------------------------
(* C16. Overrides apply to the chemical a tank resolved to, however the     *)
(* operator typed it: the name a loaded tank carries into the analysis is   *)
(* the canonical name of the record its assignment resolved to, so that     *)
(* checkExceptions matches an exception record naming the canonical names   *)
(* exactly as if they had been typed.                                       *)
canonicalName(t) == get(tanks, t).chemicalData[1].name

C16_CanonicalNameCarried ==
  /\ \A i \in 1..Len(tanks) :
       isLoaded(tanks[i].value)
         => /\ tanks[i].value.chemicalData # Null
            /\ tanks[i].value.chemical = tanks[i].value.chemicalData[1].name
  /\ lastWasAnalysis =>
       \A r \in Relationships :
         r.rel.exception =
           checkExceptions(canonicalName(r.tank), r.group, canonicalName(r.adj), r.rel.group)

----------------------------------------------------------------------------
(* C17. Report freshness: across any interleaving of tank edits, resizes,   *)
(* Clear All, analysis passes and report exports, whenever generateReport   *)
(* produces a report with status APPROVED, analysing the tanks of its cargo *)
(* manifest at that moment yields an empty Problem list.                    *)

\* a step of the component that is a click on Export Report
reportCall ==
  /\ mounted /\ ~isLoading /\ analysisResults # Null
  /\ report' = Some(generateReport)
  /\ UNCHANGED <<tankLayout, tanks, tables, analysisResults, selectedTank, errors,
                 loadVars>>

C17_ReportFreshness ==
  [][(reportCall /\ report'[1].summary.status = "APPROVED")
       => analysisPass.problems = << >>]_vars

====
